---------------------------- MODULE Spec2Model ----------------------------
(***************************************************************************)
(* Model of the cg-sandbox purge command (cmd/purge/sandbox.go).           *)
(*                                                                         *)
(* Three state machines share this module:                                 *)
(*   ClassifySpec  the age classifier: listPurgeSpaces applied, pass after *)
(*                 pass, to an inventory drawn from bounded sets;          *)
(*   Spec          the per-space operations: the purge-and-recreate cycle, *)
(*                 one remote call per step, and the recipient listing;    *)
(*   InventorySpec the inventory reader: listOrgResources, one remote call *)
(*                 per step, filling spaces, apps and instances.           *)
(*                                                                         *)
(* Time is counted in whole hours since the zero instant of time.Time;     *)
(* the zero instant itself is 0.                                           *)
(***************************************************************************)
EXTENDS Integers, Sequences, FiniteSets, TLC

VARIABLES
    \* ---- age classifier (listPurgeSpaces) ----
    spaces,        \* []*resource.Space, as the sequence of their GUIDs
    apps,          \* []*resource.App: records [Space, CreatedAt]
    instances,     \* []*resource.ServiceInstance: records [Space, CreatedAt]
    opts,          \* Options: [NotifyDays, PurgeDays, DisablePurge]
    timeStartsAt,  \* the program epoch
    now,           \* the latest clock reading
    ran,           \* TRUE when the lists below are those of a pass on the
                   \* inventory above
    toNotify,      \* result of the last pass: []SpaceDetails
    toPurge,       \* result of the last pass: []SpaceDetails
    visited,       \* per loop iteration that was not skipped: the local
                   \* firstResource after truncation and the local delta
    \* ---- per-space operations ----
    pc,            \* position in the operation on the space
    userGUIDs,     \* keys of the organization-membership map
    listedSpace,   \* the space as the platform listed it, before the cycle
    details,       \* SpaceDetails.Space: [GUID, Name, Organization, Quota]
    options,       \* Options: [DryRun]
    spaceUsers,    \* users listed for the space: records [GUID, Username]
    spaceRoles,    \* role bindings listed for the space: [Type, User]
    developers,    \* snapshot: []spaceUser
    managers,      \* snapshot: []spaceUser
    recipients,    \* result of listRecipients: [returned, addresses, err]
    calls,         \* the remote calls issued so far, in order
    spaceErr,      \* purgeSpace: the error of the destroy call
    listedApps,    \* purgeSpace: the apps listed by the fallback
    idx,           \* index of the loop the operation is in
    spaceQuota,    \* recreateSpace: GUID of the quota found
    newSpace,      \* recreateSpace: GUID of the space created
    ret            \* what each function returned, once it has

classifyVars ==
    <<spaces, apps, instances, opts, timeStartsAt, now, ran,
      toNotify, toPurge, visited>>

cycleVars ==
    <<pc, userGUIDs, listedSpace, details, options, spaceUsers, spaceRoles,
      developers,
      managers, recipients, calls, spaceErr, listedApps, idx, spaceQuota,
      newSpace, ret>>

vars == <<classifyVars, cycleVars>>

-----------------------------------------------------------------------------
(* Bounds *)

MaxHalfDays == 3      \* clock readings and epochs: 0 .. 3 half days
MaxResources == 2     \* apps plus service instances in the organization
MaxDays == 1          \* largest threshold, in days
MaxRoles == 2         \* role bindings listed for a space
MaxSpaceApps == 2     \* apps listed for a space by the fallback

-----------------------------------------------------------------------------
(* time.Time and time.Duration, in hours *)

Day == 24
HalfDay == Day \div 2
ZeroTime == 0

Times == {HalfDay * k : k \in 0..MaxHalfDays}
\* the platform stamps every resource with a creation time after the zero
\* instant; the inventory was created within the first day, off or on a
\* day boundary
CreationTimes == {HalfDay, Day}

IsZero(t) == t = ZeroTime
Before(t, u) == t < u
After(t, u) == t > u
\* t.Truncate(d): t rounded down to a multiple of d since the zero instant
Truncate(t, d) == t - (t % d)
\* variant of IntQuotient: the difference is taken the other way round
IntQuotientReversed(x, d) ==
    IF -x >= 0 THEN (-x) \div d ELSE -(x \div d)

\* int(x / d) for the float64 x / d: the fraction is dropped, rounding
\* toward zero
IntQuotient(x, d) == IF x >= 0 THEN x \div d ELSE -((-x) \div d)

-----------------------------------------------------------------------------
(* The inventory *)

AllSpaces == <<"space-1-guid", "space-2-guid">>

SpaceGUIDs == {AllSpaces[i] : i \in 1..Len(AllSpaces)}

\* the spaces of the organization: the first one, or both
SpaceLists == {SubSeq(AllSpaces, 1, k) : k \in 1..Len(AllSpaces)}

Resources == [Space : SpaceGUIDs, CreatedAt : CreationTimes]

SeqsUpTo(S, n) == UNION {[1..k -> S] : k \in 0..n}

Range(s) == {s[i] : i \in 1..Len(s)}

OptionValues ==
    [NotifyDays : 0..MaxDays, PurgeDays : 0..MaxDays, DisablePurge : BOOLEAN]

-----------------------------------------------------------------------------
(* sandbox.go: grouping, letFirstResource, listPurgeSpaces *)

\* map from owning-space GUID to the apps of that space, in input order
groupAppsBySpace(as) ==
    [g \in {as[i].Space : i \in 1..Len(as)} |->
        SelectSeq(as, LAMBDA a : a.Space = g)]

groupInstancesBySpace(is) ==
    [g \in {is[i].Space : i \in 1..Len(is)} |->
        SelectSeq(is, LAMBDA a : a.Space = g)]

\* grouped[guid]; a missing key yields the nil slice
Lookup(grouped, guid) ==
    IF guid \in DOMAIN grouped THEN grouped[guid] ELSE <<>>

\* one of the two loops of letFirstResource, started with firstResource = first
RECURSIVE EarliestOf(_, _)
EarliestOf(rs, first) ==
    IF rs = <<>> THEN first
    ELSE EarliestOf(Tail(rs),
            IF IsZero(first) \/ Before(Head(rs).CreatedAt, first)
            THEN Head(rs).CreatedAt ELSE first)

\* variant of letFirstResource: the resources are not grouped by space
letFirstResourceUngrouped(space, as, is) ==
    EarliestOf(is, EarliestOf(as, ZeroTime))

\* lines 239-260: the earliest creation time among the resources of the space
letFirstResource(space, as, is) ==
    LET groupedApps == groupAppsBySpace(as)
        groupedInstances == groupInstancesBySpace(is)
    IN  EarliestOf(Lookup(groupedInstances, space),
                   EarliestOf(Lookup(groupedApps, space), ZeroTime))

\* the clamp to the epoch, lines 290-292
ClampToEpoch(firstResource, epoch) ==
    IF After(epoch, firstResource) THEN epoch ELSE firstResource

\* variant of the next definition: the truncation applied before the clamp
ClampAfterTruncate(first, epoch) == ClampToEpoch(Truncate(first, Day), epoch)

\* lines 290-294: the clamp, then the truncation to a day boundary
ClassificationTimestamp(first, epoch) ==
    Truncate(ClampToEpoch(first, epoch), Day)

\* variant of Classify: two independent tests instead of if / else if
ClassifyBothTests(acc, space, firstResource, delta, o) ==
    LET purged ==
          IF ~o.DisablePurge /\ delta >= o.PurgeDays
          THEN [acc EXCEPT !.toPurge =
                  Append(@, [Timestamp |-> firstResource, Space |-> space])]
          ELSE acc
    IN  IF delta >= o.NotifyDays
        THEN [purged EXCEPT !.toNotify =
                Append(@, [Timestamp |-> firstResource, Space |-> space])]
        ELSE purged

\* variant of Classify: the DisablePurge flag is not consulted
ClassifyIgnoringDisable(acc, space, firstResource, delta, o) ==
    IF delta >= o.PurgeDays
    THEN [acc EXCEPT !.toPurge =
            Append(@, [Timestamp |-> firstResource, Space |-> space])]
    ELSE IF delta >= o.NotifyDays
    THEN [acc EXCEPT !.toNotify =
            Append(@, [Timestamp |-> firstResource, Space |-> space])]
    ELSE acc

\* the classification of lines 296-300, on the lists accumulated so far
Classify(acc, space, firstResource, delta, o) ==
    IF ~o.DisablePurge /\ delta >= o.PurgeDays
    THEN [acc EXCEPT !.toPurge =
            Append(@, [Timestamp |-> firstResource, Space |-> space])]
    ELSE IF delta >= o.NotifyDays
    THEN [acc EXCEPT !.toNotify =
            Append(@, [Timestamp |-> firstResource, Space |-> space])]
    ELSE acc

\* variant of PurgeSpacesStep: a space without resources is not skipped
PurgeSpacesStepNoSkip(acc, space, as, is, o, t, epoch) ==
    LET first == letFirstResource(space, as, is)
        firstResource == ClassificationTimestamp(first, epoch)
        delta == IntQuotient(t - firstResource, Day)
        seen == [acc EXCEPT !.visited =
                    Append(@, [Space |-> space,
                               Timestamp |-> firstResource,
                               Delta |-> delta])]
    IN  Classify(seen, space, firstResource, delta, o)

\* one iteration of the loop of listPurgeSpaces
PurgeSpacesStep(acc, space, as, is, o, t, epoch) ==
    LET first == letFirstResource(space, as, is)
    IN  IF IsZero(first) THEN acc
        ELSE
          LET firstResource == ClassificationTimestamp(first, epoch)
              delta == IntQuotient(t - firstResource, Day)
              seen == [acc EXCEPT !.visited =
                          Append(@, [Space |-> space,
                                     Timestamp |-> firstResource,
                                     Delta |-> delta])]
          IN  Classify(seen, space, firstResource, delta, o)

RECURSIVE PurgeSpacesLoop(_, _, _, _, _, _, _)
PurgeSpacesLoop(acc, ss, as, is, o, t, epoch) ==
    IF ss = <<>> THEN acc
    ELSE PurgeSpacesLoop(PurgeSpacesStep(acc, Head(ss), as, is, o, t, epoch),
                         Tail(ss), as, is, o, t, epoch)

listPurgeSpaces(ss, as, is, o, t, epoch) ==
    PurgeSpacesLoop([toNotify |-> <<>>, toPurge |-> <<>>, visited |-> <<>>],
                    ss, as, is, o, t, epoch)

-----------------------------------------------------------------------------
(* Users, roles, errors *)

UserGUIDs == {"user-1", "user-2"}

\* a well-formed address and a malformed one per user; a user may also have
\* no username at all
WellFormedAddress == [g \in UserGUIDs |->
    IF g = "user-1" THEN "foo@bar.gov" ELSE "foo2@bar.gov"]
MalformedAddress == [g \in UserGUIDs |->
    IF g = "user-1" THEN "foo.bar.gov" ELSE "foo2.bar.gov"]

Users == {[GUID |-> g, Username |-> n] :
            g \in UserGUIDs,
            n \in {"", "foo@bar.gov", "foo2@bar.gov",
                   "foo.bar.gov", "foo2.bar.gov"}}

\* the users the platform can list for a space: one entry per GUID, each
\* with its own username
UserLists ==
    {us \in SeqsUpTo(Users, Cardinality(UserGUIDs)) :
        /\ \A i, j \in 1..Len(us) : us[i].GUID = us[j].GUID => i = j
        /\ \A i \in 1..Len(us) :
              us[i].Username \in {"", WellFormedAddress[us[i].GUID],
                                  MalformedAddress[us[i].GUID]}}

SpaceRoleDeveloper == "space_developer"
SpaceRoleManager == "space_manager"
SpaceRoleAuditor == "space_auditor"

Roles == [Type : {SpaceRoleDeveloper, SpaceRoleManager, SpaceRoleAuditor},
          User : UserGUIDs]

\* the role bindings the platform can list for a space: at most one binding
\* per user and kind
RoleLists ==
    {rs \in SeqsUpTo(Roles, MaxRoles) :
        \A i, j \in 1..Len(rs) : rs[i] = rs[j] => i = j}

\* an error is the chain of its messages, outermost first; nil is empty
NoError == <<>>
\* fmt.Errorf("context: %w", e)
Wrap(context, e) == <<context>> \o e
\* errors.Is(e, target)
ErrorIs(e, target) ==
    /\ Len(e) >= Len(target)
    /\ SubSeq(e, Len(e) - Len(target) + 1, Len(e)) = target

ErrNoSpaceDeleteJobGUID == <<"no space delete job GUID">>
ErrDestroy == <<"space delete failed">>
ErrListApps == <<"app list failed">>
ErrDeleteApp == <<"app delete failed">>
ErrPoll == <<"polling error">>
ErrQuota == <<"space quota not found">>
ErrCreateSpace == <<"space create failed">>
ErrApplyQuota == <<"space quota apply failed">>
ErrCreateRole == <<"role create failed">>
ErrListInstances == <<"service instance list failed">>
ErrListSpaces == <<"space list failed">>
ErrListUsers == <<"space user list failed">>
ErrListRoles == <<"role list failed">>
ErrParseAddress == <<"mail: missing '@' or angle-addr">>

\* mail.ParseAddress succeeds
ParsesAsAddress(username) ==
    username \in {WellFormedAddress[g] : g \in UserGUIDs}

-----------------------------------------------------------------------------
(* sandbox.go: listRecipients, listSpaceDevsAndManagers *)

\* variant of ParseFailed: the addresses collected so far are returned
ParseFailedPartial(addresses, e) == [addresses |-> addresses, err |-> e]

\* lines 30-32: return nil, err
ParseFailed(addresses, e) == [addresses |-> <<>>, err |-> e]

RECURSIVE RecipientsLoop(_, _, _)
RecipientsLoop(addresses, members, users) ==
    IF users = <<>> THEN [addresses |-> addresses, err |-> NoError]
    ELSE LET user == Head(users)
         IN  IF user.GUID \notin members
             THEN RecipientsLoop(addresses, members, Tail(users))
             ELSE IF ~ParsesAsAddress(user.Username)
             THEN ParseFailed(addresses, ErrParseAddress)
             ELSE RecipientsLoop(Append(addresses, user.Username),
                                 members, Tail(users))

listRecipients(members, users) == RecipientsLoop(<<>>, members, users)

\* lines 61-66: the scan of the user list for one role's user; every match
\* overwrites the cache entry and the local username
RECURSIVE ScanUsers(_, _, _)
ScanUsers(users, guid, st) ==
    IF users = <<>> THEN st
    ELSE ScanUsers(Tail(users), guid,
            IF Head(users).GUID = guid
            THEN [usernamesMap |->
                      (guid :> Head(users).Username) @@ st.usernamesMap,
                  username |-> Head(users).Username]
            ELSE st)

\* lines 54-67: the cached username, or the scan when the cache has none
ResolveUsername(usernamesMap, guid, users) ==
    LET cached == IF guid \in DOMAIN usernamesMap
                  THEN usernamesMap[guid] ELSE ""
        st == [usernamesMap |-> usernamesMap, username |-> cached]
    IN  IF cached = "" THEN ScanUsers(users, guid, st) ELSE st

\* variant of Bucket: a user already in a bucket is not bucketed again
BucketOncePerUser(acc, role, username) ==
    IF username = "" THEN acc
    ELSE IF \E i \in 1..Len(acc.developers \o acc.managers) :
               (acc.developers \o acc.managers)[i].GUID = role.User
    THEN acc
    ELSE IF role.Type = SpaceRoleDeveloper
    THEN [acc EXCEPT !.developers =
            Append(@, [GUID |-> role.User, Username |-> username])]
    ELSE IF role.Type = SpaceRoleManager
    THEN [acc EXCEPT !.managers =
            Append(@, [GUID |-> role.User, Username |-> username])]
    ELSE acc

\* variant of Bucket: every kind but Developer is bucketed as Manager
BucketOthersAsManagers(acc, role, username) ==
    IF username = "" THEN acc
    ELSE IF role.Type = SpaceRoleDeveloper
    THEN [acc EXCEPT !.developers =
            Append(@, [GUID |-> role.User, Username |-> username])]
    ELSE [acc EXCEPT !.managers =
            Append(@, [GUID |-> role.User, Username |-> username])]

\* variant of Bucket: a role without a username is bucketed as well
BucketUnnamed(acc, role, username) ==
    IF role.Type = SpaceRoleDeveloper
    THEN [acc EXCEPT !.developers =
            Append(@, [GUID |-> role.User, Username |-> username])]
    ELSE IF role.Type = SpaceRoleManager
    THEN [acc EXCEPT !.managers =
            Append(@, [GUID |-> role.User, Username |-> username])]
    ELSE acc

\* lines 69-84: skip without username, else bucket by role type
Bucket(acc, role, username) ==
    IF username = "" THEN acc
    ELSE IF role.Type = SpaceRoleDeveloper
    THEN [acc EXCEPT !.developers =
            Append(@, [GUID |-> role.User, Username |-> username])]
    ELSE IF role.Type = SpaceRoleManager
    THEN [acc EXCEPT !.managers =
            Append(@, [GUID |-> role.User, Username |-> username])]
    ELSE acc

\* variant of DevsAndManagersStep: organization membership is not checked
DevsAndManagersStepAnyUser(acc, role, members, users) ==
    LET st == ResolveUsername(acc.usernamesMap, role.User, users)
    IN  Bucket([acc EXCEPT !.usernamesMap = st.usernamesMap],
               role, st.username)

\* one iteration of the loop over the roles, lines 48-85
DevsAndManagersStep(acc, role, members, users) ==
    IF role.User \notin members THEN acc
    ELSE LET st == ResolveUsername(acc.usernamesMap, role.User, users)
         IN  Bucket([acc EXCEPT !.usernamesMap = st.usernamesMap],
                    role, st.username)

RECURSIVE DevsAndManagersLoop(_, _, _, _)
DevsAndManagersLoop(acc, roles, members, users) ==
    IF roles = <<>> THEN acc
    ELSE DevsAndManagersLoop(
            DevsAndManagersStep(acc, Head(roles), members, users),
            Tail(roles), members, users)

listSpaceDevsAndManagers(members, roles, users) ==
    DevsAndManagersLoop(
        [developers |-> <<>>, managers |-> <<>>, usernamesMap |-> <<>>],
        roles, members, users)

-----------------------------------------------------------------------------
(* The space operated on and what the platform answers *)

OrgGUID == "org-1"
OldSpaceGUID == "space-1-guid"
NewSpaceGUID == "new-space-1-guid"
SpaceName == "space-1"
OldQuotaGUID == "quota-1-guid"
QuotaGUID == "quota-guid-1"
JobGUID == "delete-space-1"
NoGUID == ""

SpaceValues ==
    [GUID : {OldSpaceGUID}, Name : {SpaceName}, Organization : {OrgGUID},
     Quota : {NoGUID, OldQuotaGUID}]

\* the apps the platform can list for the space: app-1 .. app-k
AppLists == {[i \in 1..k |-> "app-" \o ToString(i)] : k \in 0..MaxSpaceApps}

Pending == [returned |-> FALSE]

NothingReturned ==
    [purgeSpace |-> Pending,
     waitForSpaceDeletion |-> Pending,
     recreateSpace |-> Pending,
     recreateSpaceDevsAndManagers |-> Pending,
     purgeAndRecreateSpace |-> Pending,
     listOrgResources |-> Pending]

Returned(f) == ret[f].returned

\* the variables of the per-space operations before any operation
CycleIdle ==
    /\ pc = "start"
    /\ spaceUsers = <<>>
    /\ spaceRoles = <<>>
    /\ developers = <<>>
    /\ managers = <<>>
    /\ recipients = [returned |-> FALSE, addresses |-> <<>>, err |-> NoError]
    /\ calls = <<>>
    /\ spaceErr = NoError
    /\ listedApps = <<>>
    /\ idx = 0
    /\ spaceQuota = NoGUID
    /\ newSpace = NoGUID
    /\ ret = NothingReturned

\* the per-space operations when only the classifier is under study
CycleUnused ==
    /\ userGUIDs = {}
    /\ listedSpace = [GUID |-> OldSpaceGUID, Name |-> SpaceName,
                      Organization |-> OrgGUID, Quota |-> NoGUID]
    /\ details = listedSpace
    /\ options = [DryRun |-> TRUE]
    /\ CycleIdle

\* the classifier when only the per-space operations are under study
ClassifyIdle ==
    /\ spaces = <<>>
    /\ apps = <<>>
    /\ instances = <<>>
    /\ opts = [NotifyDays |-> 0, PurgeDays |-> 0, DisablePurge |-> FALSE]
    /\ timeStartsAt = ZeroTime
    /\ now = ZeroTime
    /\ ran = FALSE
    /\ toNotify = <<>>
    /\ toPurge = <<>>
    /\ visited = <<>>

-----------------------------------------------------------------------------
(* ClassifySpec: the classifier, pass after pass *)

ClassifyInit ==
    /\ spaces \in SpaceLists
    /\ apps \in SeqsUpTo(Resources, MaxResources)
    /\ instances \in SeqsUpTo(Resources, MaxResources - Len(apps))
    /\ opts \in OptionValues
    /\ timeStartsAt \in Times
    /\ now = ZeroTime
    /\ ran = FALSE
    /\ toNotify = <<>>
    /\ toPurge = <<>>
    /\ visited = <<>>
    /\ CycleUnused

\* one run of listPurgeSpaces; the clock reading t is an input of the run
\* and a later run reads a later clock
ListPurgeSpaces ==
    /\ \E t \in Times :
         /\ t >= now
         /\ ran => t > now
         /\ now' = t
         /\ \E r \in {listPurgeSpaces(spaces, apps, instances, opts, t,
                                       timeStartsAt)} :
              /\ toNotify' = r.toNotify
              /\ toPurge' = r.toPurge
              /\ visited' = r.visited
    /\ ran' = TRUE
    /\ UNCHANGED <<spaces, apps, instances, opts, timeStartsAt>>
    /\ UNCHANGED cycleVars

\* the GUID the platform gives the space created in place of s
RecreatedGUID(s) == "new-" \o s

RecreatedGUIDs == {RecreatedGUID(s) : s \in SpaceGUIDs}

\* the resources rs without those recorded against space s
NotOwnedBy(rs, s) == SelectSeq(rs, LAMBDA r : r.Space # s)

\* the results of a pass are those of an inventory that is no more
ResultsStale ==
    /\ ran' = FALSE
    /\ toNotify' = <<>>
    /\ toPurge' = <<>>
    /\ visited' = <<>>

\* a successful purge-and-recreate of a space of the purge list: the space
\* recreateSpace returns (lines 121-129) has the old name and a new GUID.
\* The records of the old space's resources are gone from the next
\* inventory, or are still in it.  A recreated space is not followed through
\* a second purge.
PurgeAndRecreate ==
    /\ ran
    /\ \E i \in 1..Len(toPurge) :
         LET s == toPurge[i].Space
         IN  /\ s \in SpaceGUIDs
             /\ spaces' = [j \in 1..Len(spaces) |->
                             IF spaces[j] = s THEN RecreatedGUID(s)
                             ELSE spaces[j]]
             /\ \/ /\ apps' = NotOwnedBy(apps, s)
                   /\ instances' = NotOwnedBy(instances, s)
                \/ UNCHANGED <<apps, instances>>
    /\ ResultsStale
    /\ UNCHANGED <<opts, timeStartsAt, now>>
    /\ UNCHANGED cycleVars

\* a user of a recreated space pushes an app or creates a service instance;
\* the platform records it against the space's GUID and stamps it with the
\* latest clock reading
CreateResource ==
    /\ Len(apps) + Len(instances) < MaxResources
    /\ now > ZeroTime
    /\ \E s \in Range(spaces) \cap RecreatedGUIDs :
         \/ /\ apps' = Append(apps, [Space |-> s, CreatedAt |-> now])
            /\ UNCHANGED instances
         \/ /\ instances' = Append(instances, [Space |-> s, CreatedAt |-> now])
            /\ UNCHANGED apps
    /\ ResultsStale
    /\ UNCHANGED <<spaces, opts, timeStartsAt, now>>
    /\ UNCHANGED cycleVars

ClassifyNext ==
    \/ ListPurgeSpaces
    \/ PurgeAndRecreate
    \/ CreateResource

ClassifySpec == ClassifyInit /\ [][ClassifyNext]_vars

-----------------------------------------------------------------------------
(* Spec: the operations on one space, one remote call per step *)

Init ==
    /\ userGUIDs \in SUBSET UserGUIDs
    /\ listedSpace \in SpaceValues
    /\ details = listedSpace
    /\ options \in [DryRun : BOOLEAN]
    /\ CycleIdle
    /\ ClassifyIdle

\* purgeAndRecreateSpace returns e
CycleReturns(r, e) ==
    [r EXCEPT !.purgeAndRecreateSpace = [returned |-> TRUE, err |-> e]]

\* variant of RoleCalls: the second loop creates Developer roles as well
RoleCallsAllDevelopers(spaceGUID, devs, mgrs) ==
    [i \in 1..Len(devs \o mgrs) |->
        [op |-> "Roles.CreateSpaceRole", space |-> spaceGUID,
         user |-> (devs \o mgrs)[i].GUID, kind |-> SpaceRoleDeveloper]]

\* lines 139-150: the CreateSpaceRole calls of the two loops, in order
RoleCalls(spaceGUID, devs, mgrs) ==
    [i \in 1..Len(devs) |->
        [op |-> "Roles.CreateSpaceRole", space |-> spaceGUID,
         user |-> devs[i].GUID, kind |-> SpaceRoleDeveloper]]
    \o
    [i \in 1..Len(mgrs) |->
        [op |-> "Roles.CreateSpaceRole", space |-> spaceGUID,
         user |-> mgrs[i].GUID, kind |-> SpaceRoleManager]]

\* the notification path: the users of the space are listed and
\* listRecipients is applied to them
ListRecipients ==
    /\ pc = "start"
    /\ \E users \in UserLists :
         /\ spaceUsers' = users
         /\ LET r == listRecipients(userGUIDs, users)
            IN  recipients' = [returned |-> TRUE,
                               addresses |-> r.addresses, err |-> r.err]
    /\ pc' = "notified"
    /\ UNCHANGED <<userGUIDs, details, options, spaceRoles, developers,
                   managers, calls, spaceErr, listedApps, idx, spaceQuota,
                   newSpace, ret>>
    /\ UNCHANGED <<listedSpace, classifyVars>>

\* purgeAndRecreateSpace, step 1: the users of the space
ListUsersAll ==
    /\ pc = "start"
    /\ \/ /\ calls' = Append(calls, [op |-> "Spaces.ListUsersAll",
                                     space |-> details.GUID, ok |-> FALSE])
          /\ ret' = CycleReturns(ret, ErrListUsers)
          /\ pc' = "done"
          /\ UNCHANGED spaceUsers
       \/ /\ calls' = Append(calls, [op |-> "Spaces.ListUsersAll",
                                     space |-> details.GUID, ok |-> TRUE])
          /\ spaceUsers' \in UserLists
          /\ pc' = "listRoles"
          /\ UNCHANGED ret
    /\ UNCHANGED <<userGUIDs, details, options, spaceRoles, developers,
                   managers, recipients, spaceErr, listedApps, idx,
                   spaceQuota, newSpace>>
    /\ UNCHANGED <<listedSpace, classifyVars>>

\* purgeAndRecreateSpace, step 1: the role bindings of the space
ListIncludeUsersAll ==
    /\ pc = "listRoles"
    /\ \/ /\ calls' = Append(calls, [op |-> "Roles.ListIncludeUsersAll",
                                     space |-> details.GUID, ok |-> FALSE])
          /\ ret' = CycleReturns(ret, ErrListRoles)
          /\ pc' = "done"
          /\ UNCHANGED spaceRoles
       \/ /\ calls' = Append(calls, [op |-> "Roles.ListIncludeUsersAll",
                                     space |-> details.GUID, ok |-> TRUE])
          /\ spaceRoles' \in RoleLists
          /\ pc' = "snapshot"
          /\ UNCHANGED ret
    /\ UNCHANGED <<userGUIDs, details, options, spaceUsers, developers,
                   managers, recipients, spaceErr, listedApps, idx,
                   spaceQuota, newSpace>>
    /\ UNCHANGED <<listedSpace, classifyVars>>

\* purgeAndRecreateSpace, step 1: the snapshot; with DryRun nothing follows
Snapshot ==
    /\ pc = "snapshot"
    /\ LET r == listSpaceDevsAndManagers(userGUIDs, spaceRoles, spaceUsers)
       IN  /\ developers' = r.developers
           /\ managers' = r.managers
    /\ IF options.DryRun
       THEN /\ ret' = CycleReturns(ret, NoError)
            /\ pc' = "done"
       ELSE /\ pc' = "destroy"
            /\ UNCHANGED ret
    /\ UNCHANGED <<userGUIDs, details, options, spaceUsers, spaceRoles,
                   recipients, calls, spaceErr, listedApps, idx, spaceQuota,
                   newSpace>>
    /\ UNCHANGED <<listedSpace, classifyVars>>

\* variant of PurgeSpaceReturns: the job identifier is never returned
PurgeSpaceReturnsNoJob(r, job, e) ==
    LET r1 == [r EXCEPT !.purgeSpace =
                  [returned |-> TRUE, jobGUID |-> NoGUID, err |-> e]]
    IN  IF e = NoError THEN r1 ELSE CycleReturns(r1, e)

\* purgeSpace returns (job, e); on an error its caller returns it at once
PurgeSpaceReturns(r, job, e) ==
    LET r1 == [r EXCEPT !.purgeSpace =
                  [returned |-> TRUE, jobGUID |-> job, err |-> e]]
    IN  IF e = NoError THEN r1 ELSE CycleReturns(r1, e)

\* purgeSpace, line 160: the destroy call; lines 177-178 when it succeeds
SpacesDelete ==
    /\ pc = "destroy"
    /\ \/ \E job \in {JobGUID, NoGUID} :
            /\ calls' = Append(calls, [op |-> "Spaces.Delete",
                                       space |-> details.GUID, ok |-> TRUE,
                                       job |-> job])
            /\ ret' = PurgeSpaceReturns(ret, job, NoError)
            /\ pc' = "wait"
            /\ UNCHANGED spaceErr
       \/ /\ calls' = Append(calls, [op |-> "Spaces.Delete",
                                     space |-> details.GUID, ok |-> FALSE,
                                     job |-> NoGUID])
          /\ spaceErr' = ErrDestroy
          /\ pc' = "listApps"
          /\ UNCHANGED ret
    /\ UNCHANGED <<userGUIDs, details, options, spaceUsers, spaceRoles,
                   developers, managers, recipients, listedApps, idx,
                   spaceQuota, newSpace>>
    /\ UNCHANGED <<listedSpace, classifyVars>>

\* purgeSpace, lines 162-169: the fallback lists the apps of the space;
\* with no app listed the loop is empty and line 176 returns
ApplicationsListAll ==
    /\ pc = "listApps"
    /\ \/ /\ calls' = Append(calls, [op |-> "Applications.ListAll",
                                     space |-> details.GUID, ok |-> FALSE])
          /\ ret' = PurgeSpaceReturns(ret, NoGUID, ErrListApps)
          /\ pc' = "done"
          /\ UNCHANGED <<listedApps, idx>>
       \/ \E listed \in AppLists :
            /\ calls' = Append(calls, [op |-> "Applications.ListAll",
                                       space |-> details.GUID, ok |-> TRUE])
            /\ listedApps' = listed
            /\ IF listed = <<>>
               THEN /\ ret' = PurgeSpaceReturns(ret, NoGUID, spaceErr)
                    /\ pc' = "done"
                    /\ UNCHANGED idx
               ELSE /\ idx' = 1
                    /\ pc' = "deleteApps"
                    /\ UNCHANGED ret
    /\ UNCHANGED <<userGUIDs, details, options, spaceUsers, spaceRoles,
                   developers, managers, recipients, spaceErr, spaceQuota,
                   newSpace>>
    /\ UNCHANGED <<listedSpace, classifyVars>>

\* purgeSpace, lines 170-176: one delete of the fallback loop; after the
\* last one line 176 returns the destroy error
ApplicationsDelete ==
    /\ pc = "deleteApps"
    /\ \/ /\ calls' = Append(calls, [op |-> "Applications.Delete",
                                     app |-> listedApps[idx], ok |-> FALSE])
          /\ ret' = PurgeSpaceReturns(ret, NoGUID, ErrDeleteApp)
          /\ pc' = "done"
          /\ UNCHANGED idx
       \/ /\ calls' = Append(calls, [op |-> "Applications.Delete",
                                     app |-> listedApps[idx], ok |-> TRUE])
          /\ IF idx = Len(listedApps)
             THEN /\ ret' = PurgeSpaceReturns(ret, NoGUID, spaceErr)
                  /\ pc' = "done"
                  /\ UNCHANGED idx
             ELSE /\ idx' = idx + 1
                  /\ pc' = "deleteApps"
                  /\ UNCHANGED ret
    /\ UNCHANGED <<userGUIDs, details, options, spaceUsers, spaceRoles,
                   developers, managers, recipients, spaceErr, listedApps,
                   spaceQuota, newSpace>>
    /\ UNCHANGED <<listedSpace, classifyVars>>

\* waitForSpaceDeletion returns e; on an error its caller returns it at once
WaitReturns(r, e) ==
    LET r1 == [r EXCEPT !.waitForSpaceDeletion =
                  [returned |-> TRUE, err |-> e]]
    IN  IF e = NoError THEN r1 ELSE CycleReturns(r1, e)

\* variant of NeedsNoPoll: every job identifier is polled
NeedsNoPollNever(job) == FALSE

\* waitForSpaceDeletion: without a job identifier there is nothing to poll
NeedsNoPoll(job) == job = NoGUID

\* variant of PollError: the message of the poll error without the error
PollErrorFlattened(e) == <<"error polling space delete job: polling error">>

\* waitForSpaceDeletion: the poll error e, wrapped
PollError(e) == Wrap("error polling space delete job", e)

\* waitForSpaceDeletion, on the job identifier purgeSpace returned
WaitForSpaceDeletion ==
    /\ pc = "wait"
    /\ LET job == ret.purgeSpace.jobGUID
       IN  IF NeedsNoPoll(job)
           THEN /\ ret' = WaitReturns(ret, ErrNoSpaceDeleteJobGUID)
                /\ pc' = "done"
                /\ UNCHANGED calls
           ELSE \/ /\ calls' = Append(calls, [op |-> "Jobs.PollComplete",
                                              job |-> job, ok |-> TRUE])
                   /\ ret' = WaitReturns(ret, NoError)
                   /\ pc' = "quota"
                \/ /\ calls' = Append(calls, [op |-> "Jobs.PollComplete",
                                              job |-> job, ok |-> FALSE])
                   /\ ret' = WaitReturns(ret, PollError(ErrPoll))
                   /\ pc' = "done"
    /\ UNCHANGED <<userGUIDs, details, options, spaceUsers, spaceRoles,
                   developers, managers, recipients, spaceErr, listedApps,
                   idx, spaceQuota, newSpace>>
    /\ UNCHANGED <<listedSpace, classifyVars>>

\* recreateSpace returns (sp, e); on an error its caller returns it at once
RecreateSpaceReturns(r, sp, e) ==
    LET r1 == [r EXCEPT !.recreateSpace =
                  [returned |-> TRUE, space |-> sp, err |-> e]]
    IN  IF e = NoError THEN r1 ELSE CycleReturns(r1, e)

\* recreateSpaceDevsAndManagers returns e, and its caller returns after it
RolesReturn(r, e) ==
    CycleReturns([r EXCEPT !.recreateSpaceDevsAndManagers =
                     [returned |-> TRUE, err |-> e]], e)

\* variant of StripQuota: the quota relationship stays in the request
StripQuotaKept(d) == d

\* lines 101-103: the quota relationship is cleared.  Relationships of the
\* request is the very pointer of the old space's description (line 98), so
\* the description d loses its quota too
StripQuota(d) == IF d.Quota # NoGUID THEN [d EXCEPT !.Quota = NoGUID] ELSE d

\* lines 96-99: the create request, read through the shared pointer
SpaceRequest(d) ==
    [Name |-> d.Name,
     Relationships |-> [Organization |-> d.Organization, Quota |-> d.Quota]]

\* variant of QuotaLookupFailed: the error of the lookup is not returned
QuotaLookupFailedIgnored(r) == [r EXCEPT !.pc = "create"]

\* lines 111-119: the lookup failed, recreateSpace returns without a space
QuotaLookupFailed(r) ==
    [r EXCEPT !.pc = "done",
              !.ret = RecreateSpaceReturns(r.ret, NoGUID,
                         Wrap("error finding quota", ErrQuota))]

\* recreateSpace, lines 96-119: the request is built and the quota looked up
SpaceQuotasSingle ==
    /\ pc = "quota"
    /\ details' = StripQuota(details)
    /\ \/ /\ calls' = Append(calls, [op |-> "SpaceQuotas.Single",
                                     organization |-> OrgGUID, ok |-> FALSE])
          /\ LET r == QuotaLookupFailed([pc |-> pc, ret |-> ret])
             IN  /\ pc' = r.pc
                 /\ ret' = r.ret
          /\ UNCHANGED spaceQuota
       \/ /\ calls' = Append(calls, [op |-> "SpaceQuotas.Single",
                                     organization |-> OrgGUID, ok |-> TRUE])
          /\ spaceQuota' = QuotaGUID
          /\ pc' = "create"
          /\ UNCHANGED ret
    /\ UNCHANGED <<userGUIDs, options, spaceUsers, spaceRoles, developers,
                   managers, recipients, spaceErr, listedApps, idx,
                   newSpace>>
    /\ UNCHANGED <<listedSpace, classifyVars>>

\* recreateSpace, lines 121-124: the create call
SpacesCreate ==
    /\ pc = "create"
    /\ \/ /\ calls' = Append(calls, [op |-> "Spaces.Create",
                                     request |-> SpaceRequest(details),
                                     ok |-> FALSE])
          /\ ret' = RecreateSpaceReturns(ret, NoGUID,
                        Wrap("error creating space", ErrCreateSpace))
          /\ pc' = "done"
          /\ UNCHANGED newSpace
       \/ /\ calls' = Append(calls, [op |-> "Spaces.Create",
                                     request |-> SpaceRequest(details),
                                     ok |-> TRUE])
          /\ newSpace' = NewSpaceGUID
          /\ pc' = "apply"
          /\ UNCHANGED ret
    /\ UNCHANGED <<userGUIDs, details, options, spaceUsers, spaceRoles,
                   developers, managers, recipients, spaceErr, listedApps,
                   idx, spaceQuota>>
    /\ UNCHANGED <<listedSpace, classifyVars>>

\* variant of QuotaApplyCall: the quota is applied to the space purged
QuotaApplyCallOldSpace(quota, sp) ==
    [op |-> "SpaceQuotas.Apply", quota |-> quota, spaces |-> <<details.GUID>>]

\* line 125: SpaceQuotas.Apply(spaceQuota.GUID, []string{space.GUID})
QuotaApplyCall(quota, sp) ==
    [op |-> "SpaceQuotas.Apply", quota |-> quota, spaces |-> <<sp>>]

\* recreateSpace, lines 125-129: the quota is applied to the new space; then
\* recreateSpaceDevsAndManagers starts on the new space and, with nothing
\* in the snapshot, returns at once
SpaceQuotasApply ==
    /\ pc = "apply"
    /\ \/ /\ calls' = Append(calls, QuotaApplyCall(spaceQuota, newSpace)
                                       @@ [ok |-> FALSE])
          /\ ret' = RecreateSpaceReturns(ret, NoGUID,
                        Wrap("error applying space quota", ErrApplyQuota))
          /\ pc' = "done"
          /\ UNCHANGED idx
       \/ /\ calls' = Append(calls, QuotaApplyCall(spaceQuota, newSpace)
                                       @@ [ok |-> TRUE])
          /\ LET r == RecreateSpaceReturns(ret, newSpace, NoError)
             IN  IF RoleCalls(newSpace, developers, managers) = <<>>
                 THEN /\ ret' = RolesReturn(r, NoError)
                      /\ pc' = "done"
                      /\ UNCHANGED idx
                 ELSE /\ ret' = r
                      /\ pc' = "roles"
                      /\ idx' = 1
    /\ UNCHANGED <<userGUIDs, details, options, spaceUsers, spaceRoles,
                   developers, managers, recipients, spaceErr, listedApps,
                   spaceQuota, newSpace>>
    /\ UNCHANGED <<listedSpace, classifyVars>>

\* variant of RoleCreateFailed: the loops go on after a failed creation
RoleCreateFailedGoesOn(r, n) ==
    IF r.idx = n
    THEN [pc |-> "done", idx |-> r.idx,
          ret |-> RolesReturn(r.ret, ErrCreateRole)]
    ELSE [pc |-> "roles", idx |-> r.idx + 1, ret |-> r.ret]

\* lines 140-142 and 146-148: a creation failed at position r.idx of n, its
\* error is returned at once
RoleCreateFailed(r, n) ==
    [pc |-> "done", idx |-> r.idx, ret |-> RolesReturn(r.ret, ErrCreateRole)]

\* recreateSpaceDevsAndManagers, lines 139-151: one CreateSpaceRole call of
\* the two loops, on the space recreateSpace returned
RolesCreateSpaceRole ==
    /\ pc = "roles"
    /\ LET queue == RoleCalls(ret.recreateSpace.space, developers, managers)
       IN  \/ /\ calls' = Append(calls, queue[idx] @@ [ok |-> FALSE])
              /\ LET r == RoleCreateFailed(
                              [pc |-> pc, idx |-> idx, ret |-> ret],
                              Len(queue))
                 IN  pc' = r.pc /\ idx' = r.idx /\ ret' = r.ret
           \/ /\ calls' = Append(calls, queue[idx] @@ [ok |-> TRUE])
              /\ IF idx = Len(queue)
                 THEN /\ ret' = RolesReturn(ret, NoError)
                      /\ pc' = "done"
                      /\ UNCHANGED idx
                 ELSE /\ idx' = idx + 1
                      /\ pc' = "roles"
                      /\ UNCHANGED ret
    /\ UNCHANGED <<userGUIDs, details, options, spaceUsers, spaceRoles,
                   developers, managers, recipients, spaceErr, listedApps,
                   spaceQuota, newSpace>>
    /\ UNCHANGED <<listedSpace, classifyVars>>

Next ==
    \/ ListRecipients
    \/ ListUsersAll
    \/ ListIncludeUsersAll
    \/ Snapshot
    \/ SpacesDelete
    \/ ApplicationsListAll
    \/ ApplicationsDelete
    \/ WaitForSpaceDeletion
    \/ SpaceQuotasSingle
    \/ SpacesCreate
    \/ SpaceQuotasApply
    \/ RolesCreateSpaceRole

Spec == Init /\ [][Next]_vars

-----------------------------------------------------------------------------
(* InventorySpec: listOrgResources on one organization, one list per step *)

InventoryInit ==
    /\ ClassifyIdle
    /\ CycleUnused

\* the position after the list at position p
AfterList(p) ==
    CASE p = "start" -> "listInstances"
      [] p = "listInstances" -> "listSpaces"
      [] OTHER -> "done"

\* listOrgResources returns e
OrgResourcesReturn(r, e) ==
    [r EXCEPT !.listOrgResources = [returned |-> TRUE, err |-> e]]

\* lines 218, 225, 232 not taken: the list succeeded; after the last one
\* line 236 returns
OrgListed(r) ==
    [pc |-> AfterList(r.pc),
     ret |-> IF AfterList(r.pc) = "done"
             THEN OrgResourcesReturn(r.ret, NoError) ELSE r.ret]

\* variant of OrgListFailed: no return after a failed list
OrgListFailedGoesOn(r, e) ==
    [pc |-> AfterList(r.pc),
     ret |-> IF AfterList(r.pc) = "done"
             THEN OrgResourcesReturn(r.ret, e) ELSE r.ret]

\* lines 218-220, 225-227, 232-234: the list failed and its error is
\* returned at once
OrgListFailed(r, e) ==
    [pc |-> "done", ret |-> OrgResourcesReturn(r.ret, e)]

\* lines 214-220: the apps of the organization
OrgApplicationsListAll ==
    /\ pc = "start"
    /\ \/ /\ calls' = Append(calls, [op |-> "Applications.ListAll",
                                     organization |-> OrgGUID, ok |-> FALSE])
          /\ LET r == OrgListFailed([pc |-> pc, ret |-> ret], ErrListApps)
             IN  pc' = r.pc /\ ret' = r.ret
          /\ UNCHANGED apps
       \/ /\ calls' = Append(calls, [op |-> "Applications.ListAll",
                                     organization |-> OrgGUID, ok |-> TRUE])
          /\ apps' \in SeqsUpTo(Resources, MaxResources)
          /\ LET r == OrgListed([pc |-> pc, ret |-> ret])
             IN  pc' = r.pc /\ ret' = r.ret
    /\ UNCHANGED <<spaces, instances, opts, timeStartsAt, now, ran, toNotify,
                   toPurge, visited>>
    /\ UNCHANGED <<userGUIDs, listedSpace, details, options, spaceUsers,
                   spaceRoles, developers, managers, recipients, spaceErr,
                   listedApps, idx, spaceQuota, newSpace>>

\* lines 222-227: the service instances of the organization
OrgServiceInstancesListAll ==
    /\ pc = "listInstances"
    /\ \/ /\ calls' = Append(calls, [op |-> "ServiceInstances.ListAll",
                                     organization |-> OrgGUID, ok |-> FALSE])
          /\ LET r == OrgListFailed([pc |-> pc, ret |-> ret],
                                    ErrListInstances)
             IN  pc' = r.pc /\ ret' = r.ret
          /\ UNCHANGED instances
       \/ /\ calls' = Append(calls, [op |-> "ServiceInstances.ListAll",
                                     organization |-> OrgGUID, ok |-> TRUE])
          /\ instances' \in SeqsUpTo(Resources, MaxResources - Len(apps))
          /\ LET r == OrgListed([pc |-> pc, ret |-> ret])
             IN  pc' = r.pc /\ ret' = r.ret
    /\ UNCHANGED <<spaces, apps, opts, timeStartsAt, now, ran, toNotify,
                   toPurge, visited>>
    /\ UNCHANGED <<userGUIDs, listedSpace, details, options, spaceUsers,
                   spaceRoles, developers, managers, recipients, spaceErr,
                   listedApps, idx, spaceQuota, newSpace>>

\* lines 229-236: the spaces of the organization
OrgSpacesListAll ==
    /\ pc = "listSpaces"
    /\ \/ /\ calls' = Append(calls, [op |-> "Spaces.ListAll",
                                     organization |-> OrgGUID, ok |-> FALSE])
          /\ LET r == OrgListFailed([pc |-> pc, ret |-> ret], ErrListSpaces)
             IN  pc' = r.pc /\ ret' = r.ret
          /\ UNCHANGED spaces
       \/ /\ calls' = Append(calls, [op |-> "Spaces.ListAll",
                                     organization |-> OrgGUID, ok |-> TRUE])
          /\ spaces' \in SpaceLists
          /\ LET r == OrgListed([pc |-> pc, ret |-> ret])
             IN  pc' = r.pc /\ ret' = r.ret
    /\ UNCHANGED <<apps, instances, opts, timeStartsAt, now, ran, toNotify,
                   toPurge, visited>>
    /\ UNCHANGED <<userGUIDs, listedSpace, details, options, spaceUsers,
                   spaceRoles, developers, managers, recipients, spaceErr,
                   listedApps, idx, spaceQuota, newSpace>>

InventoryNext ==
    \/ OrgApplicationsListAll
    \/ OrgServiceInstancesListAll
    \/ OrgSpacesListAll

InventorySpec == InventoryInit /\ [][InventoryNext]_vars

-----------------------------------------------------------------------------
(* Properties of the classifier.  The reference values below are computed  *)
(* from the inventory directly, not by the operators that model the code.  *)

\* the apps and service instances whose owning space is s
OwnedBy(s) ==
    {apps[i] : i \in {j \in 1..Len(apps) : apps[j].Space = s}}
      \cup
    {instances[i] : i \in {j \in 1..Len(instances) : instances[j].Space = s}}

HasResources(s) == OwnedBy(s) # {}

MinCreatedAt(s) ==
    CHOOSE t \in {r.CreatedAt : r \in OwnedBy(s)} :
        \A r \in OwnedBy(s) : t <= r.CreatedAt

MaxTime(t, u) == IF t >= u THEN t ELSE u

\* max(epoch, min creation time), truncated to a day boundary
ExpectedTimestamp(s) ==
    LET m == MaxTime(timeStartsAt, MinCreatedAt(s)) IN m - (m % Day)

\* floor((now - timestamp) in days)
FloorDelta(s) == (now - ExpectedTimestamp(s)) \div Day

SpacesIn(list) == {list[i].Space : i \in 1..Len(list)}

NoSpaceTwice(list) ==
    \A i, j \in 1..Len(list) : list[i].Space = list[j].Space => i = j

Listed(list, s) == {list[i] : i \in {j \in 1..Len(list) : list[j].Space = s}}

\* C5: with purgeDays >= notifyDays, no space is in both the notify list and
\* the purge list of one pass, and no space is twice in either list.
C5_ListsDisjoint ==
    (ran /\ opts.PurgeDays >= opts.NotifyDays) =>
        /\ SpacesIn(toNotify) \cap SpacesIn(toPurge) = {}
        /\ NoSpaceTwice(toNotify)
        /\ NoSpaceTwice(toPurge)

\* a pass that put one space in each list
C5_Witness ==
    /\ ran
    /\ opts.PurgeDays >= opts.NotifyDays
    /\ Len(toNotify) = 1
    /\ Len(toPurge) = 1

\* C6: with DisablePurge set the purge list is empty, and a space whose delta
\* reaches purgeDays is in the notify list iff that delta reaches notifyDays.
C6_DisablePurge ==
    (ran /\ opts.DisablePurge) =>
        /\ toPurge = <<>>
        /\ \A s \in Range(spaces) :
             (HasResources(s) /\ FloorDelta(s) >= opts.PurgeDays) =>
                (s \in SpacesIn(toNotify) <=> FloorDelta(s) >= opts.NotifyDays)

\* purge disabled, a space old enough to purge is notified instead
C6_Witness ==
    /\ ran
    /\ opts.DisablePurge
    /\ \E s \in Range(spaces) :
         /\ HasResources(s)
         /\ FloorDelta(s) >= opts.PurgeDays
         /\ opts.PurgeDays > 0
         /\ s \in SpacesIn(toNotify)

\* C7: for a space with resources the timestamp used and recorded is
\* max(epoch, min creation time of its own resources), clamped first and
\* truncated to a day boundary afterwards.
C7_Timestamp ==
    ran =>
        /\ \A s \in Range(spaces) :
             HasResources(s) =>
                \E i \in 1..Len(visited) :
                    /\ visited[i].Space = s
                    /\ visited[i].Timestamp = ExpectedTimestamp(s)
        /\ \A i \in 1..Len(visited) :
             /\ HasResources(visited[i].Space)
             /\ visited[i].Timestamp = ExpectedTimestamp(visited[i].Space)
        /\ \A d \in Range(toNotify) \cup Range(toPurge) :
             /\ HasResources(d.Space)
             /\ d.Timestamp = ExpectedTimestamp(d.Space)

\* a listed space whose oldest resource predates an epoch that is not on a
\* day boundary, next to an older resource of another space
C7_Witness ==
    /\ ran
    /\ \E d \in Range(toNotify) \cup Range(toPurge) :
         /\ MinCreatedAt(d.Space) < timeStartsAt
         /\ timeStartsAt % Day # 0
         /\ d.Timestamp = timeStartsAt - HalfDay
         /\ \E s \in SpaceGUIDs \ {d.Space} :
              HasResources(s) /\ MinCreatedAt(s) < MinCreatedAt(d.Space)

\* C8 (as claimed): with delta = floor((now - timestamp) in days), a space
\* with resources is in the purge list iff purge is enabled and delta >=
\* purgeDays, else in the notify list iff delta >= notifyDays, else in neither.
C8_FloorClassification ==
    ran =>
        \A s \in Range(spaces) :
            HasResources(s) =>
                LET purge == ~opts.DisablePurge /\ FloorDelta(s) >= opts.PurgeDays
                    notify == ~purge /\ FloorDelta(s) >= opts.NotifyDays
                IN  /\ s \in SpacesIn(toPurge) <=> purge
                    /\ s \in SpacesIn(toNotify) <=> notify

\* C9: a space that owns no app and no service instance is in neither list.
C9_EmptySpaceExcluded ==
    ran =>
        \A s \in Range(spaces) :
            ~HasResources(s) =>
                s \notin SpacesIn(toNotify) \cup SpacesIn(toPurge)

\* an empty space classified with both thresholds at 0 while another space,
\* which has resources, is listed
C9_Witness ==
    /\ ran
    /\ opts.NotifyDays = 0
    /\ opts.PurgeDays = 0
    /\ \E s \in Range(spaces) : ~HasResources(s)
    /\ SpacesIn(toNotify) \cup SpacesIn(toPurge) # {}

-----------------------------------------------------------------------------
(* Properties of the per-space operations *)

CallsOf(o) == SelectSeq(calls, LAMBDA c : c.op = o)

\* the role bindings created on the platform, in order
CreatedRoles == SelectSeq(CallsOf("Roles.CreateSpaceRole"), LAMBDA c : c.ok)

Binding(s, u, k) == [space |-> s, user |-> u, kind |-> k]

CreatedBindings ==
    {Binding(c.space, c.user, c.kind) : c \in Range(CreatedRoles)}

\* the listed user with this GUID has a username
Resolvable(g) ==
    \E u \in Range(spaceUsers) : u.GUID = g /\ u.Username # ""

\* the bindings of the snapshot, had they been made on space s: one per
\* listed Developer or Manager role of a recognized, resolvable user
SnapshotBindings(s) ==
    {Binding(s, r.User, r.Type) :
        r \in {q \in Range(spaceRoles) :
                 /\ q.Type \in {SpaceRoleDeveloper, SpaceRoleManager}
                 /\ q.User \in userGUIDs
                 /\ Resolvable(q.User)}}

CycleSucceeded ==
    /\ Returned("purgeAndRecreateSpace")
    /\ ret.purgeAndRecreateSpace.err = NoError
    /\ ~options.DryRun

\* C1: after a successful cycle without dry-run the bindings created are
\* exactly one per snapshotted Developer or Manager role of a recognized,
\* resolvable user, all on the new space and none on the old one.
C1_RecreatedBindings ==
    CycleSucceeded =>
        /\ newSpace # details.GUID
        /\ CreatedBindings = SnapshotBindings(newSpace)
        /\ Len(CreatedRoles) = Cardinality(SnapshotBindings(newSpace))
        /\ \A c \in Range(CallsOf("Roles.CreateSpaceRole")) :
              c.space = newSpace /\ c.space # details.GUID

\* a successful cycle that recreated a Manager and a Developer binding
C1_Witness ==
    /\ CycleSucceeded
    /\ Len(CreatedRoles) = 2
    /\ {c.kind : c \in Range(CreatedRoles)} =
          {SpaceRoleDeveloper, SpaceRoleManager}

\* C2 (as claimed): whenever the destroy call failed, the error purgeSpace
\* returns is the destroy error.
C2_ReturnsDestroyError ==
    (Returned("purgeSpace") /\ spaceErr # NoError) =>
        ret.purgeSpace.err = spaceErr

\* C3: when the quota lookup fails no space is created, no quota is applied
\* and recreateSpace returns an error and no space.
C3_QuotaFailFast ==
    (\E c \in Range(CallsOf("SpaceQuotas.Single")) : ~c.ok) =>
        /\ CallsOf("Spaces.Create") = <<>>
        /\ CallsOf("SpaceQuotas.Apply") = <<>>
        /\ Returned("recreateSpace")
        /\ ret.recreateSpace.err # NoError
        /\ ret.recreateSpace.space = NoGUID

\* the quota lookup failed after the old space was deleted
C3_Witness ==
    /\ \E c \in Range(CallsOf("SpaceQuotas.Single")) : ~c.ok
    /\ \E c \in Range(CallsOf("Spaces.Delete")) : c.ok
    /\ Returned("recreateSpace")

\* C4: with an empty job identifier waitForSpaceDeletion fails with
\* ErrNoSpaceDeleteJobGUID and polls nothing.
C4_NoJobNoPoll ==
    (Returned("purgeSpace") /\ ret.purgeSpace.err = NoError
        /\ ret.purgeSpace.jobGUID = NoGUID) =>
        /\ CallsOf("Jobs.PollComplete") = <<>>
        /\ pc # "wait" =>
              /\ Returned("waitForSpaceDeletion")
              /\ ret.waitForSpaceDeletion.err = ErrNoSpaceDeleteJobGUID

\* the destroy call returned no job identifier and the wait has returned
C4_Witness ==
    /\ Returned("waitForSpaceDeletion")
    /\ ret.purgeSpace.jobGUID = NoGUID
    /\ \E c \in Range(CallsOf("Spaces.Delete")) : c.ok

\* C10: a user outside the organization-membership set is in neither
\* snapshot bucket, gets no role created, and is not among the recipients.
C10_NonMembersExcluded ==
    \A g \in UserGUIDs \ userGUIDs :
        /\ \A u \in Range(developers) \cup Range(managers) : u.GUID # g
        /\ \A c \in Range(CallsOf("Roles.CreateSpaceRole")) : c.user # g
        /\ \A u \in Range(spaceUsers) :
              u.GUID = g => u.Username \notin Range(recipients.addresses)

\* a cycle that recreated a role although a listed, resolvable user holding
\* a Developer or Manager role is no longer a member of the organization
C10_Witness ==
    /\ CycleSucceeded
    /\ CreatedRoles # <<>>
    /\ \E r \in Range(spaceRoles) :
         /\ r.User \notin userGUIDs
         /\ r.Type \in {SpaceRoleDeveloper, SpaceRoleManager}
         /\ Resolvable(r.User)

\* the role list rs in every order
Reorderings(rs) ==
    {[i \in 1..Len(rs) |-> rs[f[i]]] : f \in Permutations(1..Len(rs))}

\* the bindings the snapshot and the two creation loops yield on space s for
\* the role list rs when every creation succeeds
BindingsFor(s, rs) ==
    LET snap == listSpaceDevsAndManagers(userGUIDs, rs, spaceUsers)
        queue == RoleCalls(s, snap.developers, snap.managers)
    IN  {Binding(c.space, c.user, c.kind) : c \in Range(queue)}

\* C11: role recreation is order-independent: when all creations succeed,
\* the bindings created from the listed roles are the bindings every other
\* order of the same role list yields.
C11_OrderIndependent ==
    CycleSucceeded =>
        \A rs \in Reorderings(spaceRoles) :
            BindingsFor(newSpace, rs) = CreatedBindings

\* a successful cycle on [Manager(user-1), Developer(user-2)], whose other
\* order is [Developer(user-2), Manager(user-1)]
C11_Witness ==
    /\ CycleSucceeded
    /\ spaceRoles = <<[Type |-> SpaceRoleManager, User |-> "user-1"],
                      [Type |-> SpaceRoleDeveloper, User |-> "user-2"]>>
    /\ Cardinality(CreatedBindings) = 2
    /\ Cardinality(Reorderings(spaceRoles)) = 2

\* C12: the create request carries the name and the organization
\* relationship of the space being purged and no quota relationship, whether
\* or not the old space had one.
C12_CreateRequest ==
    \A c \in Range(CallsOf("Spaces.Create")) :
        /\ c.request.Name = listedSpace.Name
        /\ c.request.Relationships.Organization = listedSpace.Organization
        /\ c.request.Relationships.Quota = NoGUID

\* a space listed with a quota relationship was purged and the create call
\* was issued
C12_Witness ==
    /\ listedSpace.Quota = OldQuotaGUID
    /\ CallsOf("Spaces.Create") # <<>>

\* C13: with a job identifier, waitForSpaceDeletion polls that identifier,
\* once, and returns no error exactly when the poll reports completion; when
\* the poll fails the returned error wraps the poll error and is not the
\* missing-job sentinel.
C13_PollOutcome ==
    (Returned("waitForSpaceDeletion") /\ ret.purgeSpace.jobGUID # NoGUID) =>
        LET polls == CallsOf("Jobs.PollComplete")
            err == ret.waitForSpaceDeletion.err
        IN  /\ Len(polls) = 1
            /\ polls[1].job = ret.purgeSpace.jobGUID
            /\ (err = NoError) <=> polls[1].ok
            /\ ~polls[1].ok =>
                  /\ ErrorIs(err, ErrPoll)
                  /\ ~ErrorIs(err, ErrNoSpaceDeleteJobGUID)

\* the poll of the job purgeSpace returned has failed
C13_Witness ==
    /\ Returned("waitForSpaceDeletion")
    /\ ret.purgeSpace.jobGUID = JobGUID
    /\ CallsOf("Jobs.PollComplete") =
          <<[op |-> "Jobs.PollComplete", job |-> JobGUID, ok |-> FALSE]>>
    /\ ret.waitForSpaceDeletion.err # NoError

\* the apps the fallback of purgeSpace issued a delete call for, in order
DeletedApps ==
    [i \in 1..Len(CallsOf("Applications.Delete")) |->
        CallsOf("Applications.Delete")[i].app]

\* C14: when the destroy call failed and the app listing succeeded, purgeSpace
\* has issued one delete call for each listed app, and none for any other.
C14_DeletesEveryListedApp ==
    (/\ Returned("purgeSpace")
     /\ spaceErr # NoError
     /\ \E c \in Range(CallsOf("Applications.ListAll")) : c.ok)
        => DeletedApps = listedApps

\* the users of the space that are recognized members, in listing order
ListedMembers == SelectSeq(spaceUsers, LAMBDA u : u.GUID \in userGUIDs)

\* a username that is a syntactically valid address
ValidAddress(username) == \E g \in UserGUIDs : username = WellFormedAddress[g]

\* C15: listRecipients fails hard on a malformed username: when a recognized
\* member among the space's users has a username that is not a valid address
\* it returns an error and no address at all; otherwise it returns no error
\* and exactly the usernames of the recognized members, in input order.
C15_Recipients ==
    recipients.returned =>
        IF \E i \in 1..Len(ListedMembers) :
               ~ValidAddress(ListedMembers[i].Username)
        THEN /\ recipients.err # NoError
             /\ recipients.addresses = <<>>
        ELSE /\ recipients.err = NoError
             /\ recipients.addresses =
                   [i \in 1..Len(ListedMembers) |-> ListedMembers[i].Username]

\* a member with a valid address is listed before a member with a malformed
\* one, and listRecipients has returned
C15_Witness ==
    /\ recipients.returned
    /\ recipients.err # NoError
    /\ Len(ListedMembers) = 2
    /\ ValidAddress(ListedMembers[1].Username)
    /\ ListedMembers[2].Username = MalformedAddress[ListedMembers[2].GUID]

\* the list operations of listOrgResources, in the order of the code
OrgListOps ==
    <<"Applications.ListAll", "ServiceInstances.ListAll", "Spaces.ListAll">>

\* C16: listOrgResources issues only its three list operations, in order,
\* and none after a failed one; it returns an error exactly when one of its
\* list operations failed.
C16_OrgResourcesError ==
    /\ Len(calls) <= Len(OrgListOps)
    /\ \A i \in 1..Len(calls) :
          /\ calls[i].op = OrgListOps[i]
          /\ ~calls[i].ok => i = Len(calls)
    /\ Returned("listOrgResources") =>
          ((ret.listOrgResources.err # NoError)
              <=> \E i \in 1..Len(calls) : ~calls[i].ok)

\* the apps were listed, the list of service instances failed, and
\* listOrgResources has returned
C16_Witness ==
    /\ Returned("listOrgResources")
    /\ Len(calls) = 2
    /\ calls[1].ok /\ apps # <<>>
    /\ ~calls[2].ok
    /\ ret.listOrgResources.err = ErrListInstances

\* C17: recreation resets the age clock: a recreated space, which has a new
\* GUID, is in neither list of any pass as long as no app and no service
\* instance is recorded against the new GUID, whatever is still recorded
\* against the old one.
C17_RecreatedSpaceExcluded ==
    ran =>
        \A s \in Range(spaces) \cap RecreatedGUIDs :
            ~HasResources(s) =>
                /\ s \notin SpacesIn(toNotify)
                /\ s \notin SpacesIn(toPurge)

\* a pass after the recreation of a space: the new space owns nothing, a
\* resource old enough to purge is still recorded against the old GUID
C17_Witness ==
    /\ ran
    /\ ~opts.DisablePurge
    /\ \E s \in SpaceGUIDs :
         /\ RecreatedGUID(s) \in Range(spaces)
         /\ ~HasResources(RecreatedGUID(s))
         /\ HasResources(s)
         /\ FloorDelta(s) >= opts.PurgeDays
         /\ FloorDelta(s) >= 0

\* the stage of space s given a notify list and a purge list
Stage(notify, purge, s) ==
    IF s \in SpacesIn(purge) THEN 2
    ELSE IF s \in SpacesIn(notify) THEN 1
    ELSE 0

\* C18: with the same resources and epoch, purge enabled and
\* purgeDays >= notifyDays, a later pass never moves a space backward:
\* a purge-eligible space stays purge-eligible, and a notify-eligible space
\* is notify- or purge-eligible.
C18_ForwardOnly ==
    [][(/\ ran /\ ran'
        /\ ~opts.DisablePurge
        /\ opts.PurgeDays >= opts.NotifyDays)
          => \A s \in Range(spaces) :
                Stage(toNotify', toPurge', s) >= Stage(toNotify, toPurge, s)]_vars

\* a space in the purge list of a pass that the pass at an earlier clock
\* reading put in the notify list
C18_Witness ==
    /\ ran
    /\ ~opts.DisablePurge
    /\ opts.PurgeDays >= opts.NotifyDays
    /\ \E s \in Range(spaces), t \in Times :
         /\ t < now
         /\ s \in SpacesIn(toPurge)
         /\ LET earlier == listPurgeSpaces(spaces, apps, instances, opts, t,
                                           timeStartsAt)
            IN  Stage(earlier.toNotify, earlier.toPurge, s) = 1

\* C19: in recreateSpaceDevsAndManagers the first failed role creation ends
\* the function: no CreateSpaceRole call follows a failed one, no other call
\* (no delete, no rollback) follows a role creation, the calls are the
\* snapshot's bindings in order, and the function returns no error only
\* when every binding of the snapshot was created.
C19_RoleFailureReturned ==
    LET cs == CallsOf("Roles.CreateSpaceRole")
        queue == RoleCalls(newSpace, developers, managers)
        err == ret.recreateSpaceDevsAndManagers.err
    IN  /\ \A i \in 1..Len(cs) : ~cs[i].ok => i = Len(cs)
        /\ \A i, j \in 1..Len(calls) :
              (i < j /\ calls[i].op = "Roles.CreateSpaceRole")
                 => calls[j].op = "Roles.CreateSpaceRole"
        /\ Len(cs) <= Len(queue)
        /\ \A i \in 1..Len(cs) :
              /\ cs[i].space = queue[i].space
              /\ cs[i].user = queue[i].user
              /\ cs[i].kind = queue[i].kind
        /\ Returned("recreateSpaceDevsAndManagers") =>
              /\ (err = NoError) =>
                    /\ Len(cs) = Len(queue)
                    /\ \A i \in 1..Len(cs) : cs[i].ok
              /\ (err # NoError) =>
                    /\ cs # <<>>
                    /\ ~cs[Len(cs)].ok
                    /\ err = ErrCreateRole

\* the first of two role creations succeeded, the second failed, and
\* recreateSpaceDevsAndManagers has returned the error
C19_Witness ==
    /\ Returned("recreateSpaceDevsAndManagers")
    /\ ret.recreateSpaceDevsAndManagers.err # NoError
    /\ Len(CallsOf("Roles.CreateSpaceRole")) = 2
    /\ CallsOf("Roles.CreateSpaceRole")[1].ok
    /\ ~CallsOf("Roles.CreateSpaceRole")[2].ok

\* the remote calls of recreateSpace, in the order of the code
RecreateSpaceOps == <<"SpaceQuotas.Single", "Spaces.Create", "SpaceQuotas.Apply">>

\* the remote calls recreateSpace has issued, in order
RecreateSpaceCalls ==
    SelectSeq(calls, LAMBDA c : c.op \in Range(RecreateSpaceOps))

\* C20: recreateSpace issues the quota lookup, the space creation and the
\* quota application in that order, each at most once; the application
\* follows a successful creation and names the quota the lookup found and
\* the GUID of the space created, never that of the space purged; after a
\* failed creation there is no application and no space is returned.
C20_RecreateOrder ==
    LET rc == RecreateSpaceCalls
    IN  /\ Len(rc) <= Len(RecreateSpaceOps)
        /\ \A i \in 1..Len(rc) : rc[i].op = RecreateSpaceOps[i]
        /\ Len(rc) = 3 =>
              /\ rc[1].ok
              /\ rc[2].ok
              /\ rc[3].quota = QuotaGUID
              /\ rc[3].spaces = <<NewSpaceGUID>>
              /\ listedSpace.GUID \notin Range(rc[3].spaces)
        /\ (Len(rc) >= 2 /\ ~rc[2].ok) =>
              /\ Len(rc) = 2
              /\ Returned("recreateSpace")
              /\ ret.recreateSpace.space = NoGUID
              /\ ret.recreateSpace.err # NoError

\* the quota was looked up, the space created and the quota applied
C20_Witness ==
    /\ Len(RecreateSpaceCalls) = 3
    /\ RecreateSpaceCalls[3].ok
    /\ ret.recreateSpace.space = NewSpaceGUID

\* C21: when the destroy call succeeded, purgeSpace returns the job
\* identifier that call returned and no error, and issues no application
\* list and no application delete call; when purgeSpace returns an error
\* the job identifier it returns is empty.
C21_DestroySucceeded ==
    Returned("purgeSpace") =>
        LET destroy == CallsOf("Spaces.Delete")
        IN  /\ Len(destroy) = 1
            /\ destroy[1].ok =>
                  /\ ret.purgeSpace.err = NoError
                  /\ ret.purgeSpace.jobGUID = destroy[1].job
                  /\ CallsOf("Applications.ListAll") = <<>>
                  /\ CallsOf("Applications.Delete") = <<>>
            /\ ret.purgeSpace.err # NoError =>
                  ret.purgeSpace.jobGUID = NoGUID

\* the destroy call succeeded with a job identifier and purgeSpace returned
C21_Witness ==
    /\ Returned("purgeSpace")
    /\ CallsOf("Spaces.Delete") # <<>>
    /\ CallsOf("Spaces.Delete")[1].ok
    /\ CallsOf("Spaces.Delete")[1].job = JobGUID
    /\ ret.purgeSpace.jobGUID = JobGUID

\* the snapshot of the listed roles has been taken
SnapshotTaken ==
    /\ pc # "snapshot"
    /\ \E c \in Range(CallsOf("Roles.ListIncludeUsersAll")) : c.ok

\* the sequence rs without its i-th element
RemoveAt(rs, i) == SubSeq(rs, 1, i - 1) \o SubSeq(rs, i + 1, Len(rs))

\* C22: a role whose user has no entry in the space user list, or only one
\* with an empty username, is in neither bucket, and the buckets are those
\* the role list without that role gives.
C22_UnresolvableSkipped ==
    SnapshotTaken =>
        \A i \in 1..Len(spaceRoles) :
            ~Resolvable(spaceRoles[i].User) =>
                /\ \A u \in Range(developers) \cup Range(managers) :
                      u.GUID # spaceRoles[i].User
                /\ LET without == listSpaceDevsAndManagers(
                                      userGUIDs, RemoveAt(spaceRoles, i),
                                      spaceUsers)
                   IN  /\ developers = without.developers
                       /\ managers = without.managers

\* the first listed role is a member's whose entry in the user list has an
\* empty username, the role after it was bucketed
C22_Witness ==
    /\ SnapshotTaken
    /\ Len(spaceRoles) = 2
    /\ spaceRoles[1].User \in userGUIDs
    /\ spaceRoles[1].Type \in {SpaceRoleDeveloper, SpaceRoleManager}
    /\ \E u \in Range(spaceUsers) :
          u.GUID = spaceRoles[1].User /\ u.Username = ""
    /\ Len(developers) + Len(managers) = 1

\* the users of the listed roles of one kind held by a recognized,
\* resolvable user, one per role binding, in listing order
UsersWithKind(kind) ==
    LET rs == SelectSeq(spaceRoles,
                        LAMBDA r : /\ r.Type = kind
                                   /\ r.User \in userGUIDs
                                   /\ Resolvable(r.User))
    IN  [i \in 1..Len(rs) |-> rs[i].User]

\* the user GUIDs of a bucket, in order
GUIDsOf(bucket) == [i \in 1..Len(bucket) |-> bucket[i].GUID]

\* C23: the snapshot buckets by role kind only: the developers are the
\* users of the Developer roles of recognized, resolvable users, the
\* managers those of the Manager roles, one entry per role binding; a role
\* of any other kind is in neither bucket and no role is created for it.
C23_BucketByKind ==
    SnapshotTaken =>
        /\ GUIDsOf(developers) = UsersWithKind(SpaceRoleDeveloper)
        /\ GUIDsOf(managers) = UsersWithKind(SpaceRoleManager)
        /\ \A c \in Range(CallsOf("Roles.CreateSpaceRole")) :
              /\ c.kind \in {SpaceRoleDeveloper, SpaceRoleManager}
              /\ \E r \in Range(spaceRoles) :
                    r.User = c.user /\ r.Type = c.kind

\* a recognized, resolvable user listed as auditor and as developer is in
\* the developers bucket once and not in the managers bucket, and the
\* developer role was recreated
C23_Witness ==
    /\ SnapshotTaken
    /\ \E g \in userGUIDs :
         /\ Resolvable(g)
         /\ spaceRoles = <<[Type |-> SpaceRoleAuditor, User |-> g],
                           [Type |-> SpaceRoleDeveloper, User |-> g]>>
         /\ GUIDsOf(developers) = <<g>>
         /\ managers = <<>>
    /\ Len(CreatedRoles) = 1

=============================================================================
